---- MODULE Spec2Model ----
(***************************************************************************)
(* A model of biome-setup (src/index.js): the upward file search, the      *)
(* package-manager detection, the ESLint directive scrubber, the file walk *)
(* and the orchestrator main().                                            *)
(***************************************************************************)
EXTENDS Integers, Sequences, FiniteSets, TLC

\* ------------------------------------------------------------------ bounds
\* Number of directories on the chain from the working directory (level 0)
\* up to the filesystem root (level Depth - 1).
Depth == 2
\* Longest candidate list handed to findUpwards in SpecFind.
MaxNames == 2
\* Longest file content of SpecScrub made of any pieces (see Pieces).
MaxPieces == 3
\* Longest file content of SpecScrub made of the pieces of line comments only.
MaxLinePieces == 5
\* Longest file content of SpecScrub made of the pieces of block comments only.
MaxBlockPieces == 5
\* Number of scrub passes made over one content in SpecScrub.
MaxPasses == 2
\* Number of entries (files, directories, others) below the scrub root.
MaxNodes == 3

VARIABLES
    manifests,   \* level -> the package.json of that directory (or "absent")
    lockfiles,   \* level -> the set of lockfile names present in that directory
    pc,          \* position of main() / of the function under check
    pmConfig,    \* value returned by detectPackageManager()
    fuNames,     \* findUpwards: the filenames argument
    fuCurrent,   \* findUpwards: local variable current
    fuIdx,       \* findUpwards: position of the inner for-loop (1-based)
    fuResult,    \* findUpwards: the returned value
    original,    \* scrubber: the content before the first pass
    text,        \* scrubber: the content after the passes made so far
    removed,     \* scrubber: removedCount of each pass made so far
    tree,        \* the entries below the scrub root, as they are before the walk
    fileContent, \* entry -> the content of the file now
    wStack,      \* walk: the entries still to visit, in visiting order
    stats,       \* walk: filesScanned, filesTouched, totalCommentsRemoved
    listed,      \* walk: the directories given to fs.readdirSync (0 is the root)
    scanned,     \* walk: the files given to fs.readFileSync
    rewritten,   \* walk: the files given to fs.writeFileSync, in order
    pkg,         \* the parsed content of the local package.json
    tsconfig,    \* whether tsconfig.json exists in the working directory
    biomeConfig, \* biome.json in the working directory
    legacyPackages, \* main: const legacyPackages
    projectType, \* main: const projectType
    answers,     \* main: const answers
    commands,    \* the external commands run so far, each with its outcome
    written,     \* the files main has written so far, in order
    errors,      \* what the catch block of main has reported
    summary,     \* whether printSummary has run
    exitCode     \* the exit code of the process; -1 while it runs

vars == <<manifests, lockfiles, pc, pmConfig, fuNames, fuCurrent, fuIdx, fuResult,
          original, text, removed,
          tree, fileContent, wStack, stats, listed, scanned, rewritten,
          pkg, tsconfig, biomeConfig, legacyPackages, projectType, answers,
          commands, written, errors, summary, exitCode>>

walkVars == <<tree, fileContent, wStack, stats, listed, scanned, rewritten>>
projectVars == <<pkg, tsconfig, biomeConfig>>
mainVars == <<legacyPackages, projectType, answers, commands, written, errors,
              summary, exitCode>>

fsVars == <<manifests, lockfiles>>
findVars == <<fuNames, fuCurrent, fuIdx, fuResult>>
scrubVars == <<original, text, removed>>

\* ------------------------------------------------------- the directory chain
Levels == 0 .. (Depth - 1)

\* process.cwd()
PROJECT_ROOT == 0

\* Mutant of Dirname: the directory below the root is taken for the root.
DirnameStopsBelowRoot(current) == IF current >= Depth - 2 THEN current ELSE current + 1

\* path.dirname(current): the parent directory; the root is its own parent.
Dirname(current) == IF current = Depth - 1 THEN current ELSE current + 1

\* path.join(directory, name)
PathJoin(directory, name) == [dir |-> directory, name |-> name]

PATHS == [packageJson |-> PathJoin(PROJECT_ROOT, "package.json"),
          biomeConfig |-> PathJoin(PROJECT_ROOT, "biome.json")]

LockFileNames == {"pnpm-lock.yaml", "yarn.lock", "bun.lockb"}

\* A package.json is absent, unparsable, or parsed; of a parsed one the model
\* keeps the packageManager field: undefined, a non-string, or a string given
\* as its characters grouped into words and "@" signs.
NoField == [type |-> "undefined", chars |-> <<>>]
NonString == [type |-> "number", chars |-> <<>>]
Str(chars) == [type |-> "string", chars |-> chars]

PackageManagerStrings ==
    { <<"pnpm", "@", "9.0.0">>, <<"yarn", "@", "4.1.0">>, <<"bun", "@", "1.1.0">>,
      <<"npm", "@", "10.2.0">>, <<"deno", "@", "1.40.0">>, <<"constructor", "@", "1">>,
      <<"toString">> }

ManifestValues ==
    { [state |-> "absent", packageManager |-> NoField],
      [state |-> "malformed", packageManager |-> NoField],
      [state |-> "parsed", packageManager |-> NoField],
      [state |-> "parsed", packageManager |-> NonString] }
    \cup { [state |-> "parsed", packageManager |-> Str(s)] : s \in PackageManagerStrings }

\* fs.existsSync(path)
ExistsSync(path) ==
    IF path.name = "package.json" THEN manifests[path.dir].state # "absent"
    ELSE path.name \in lockfiles[path.dir]

\* ------------------------------------------------------------- findUpwards
Null == [directory |-> -1, file |-> PathJoin(-1, "null"), name |-> "null"]

Min(S) == CHOOSE x \in S : \A y \in S : x <= y

\* One pass of the while loop at directory current, then the next pass.
RECURSIVE findUpwardsFrom(_, _)
findUpwardsFrom(filenames, current) ==
    LET hits == { k \in 1 .. Len(filenames) :
                      ExistsSync(PathJoin(current, filenames[k])) }
    IN  IF hits # {}
        THEN [directory |-> current,
              file |-> PathJoin(current, filenames[Min(hits)]),
              name |-> filenames[Min(hits)]]
        ELSE IF Dirname(current) = current THEN Null
             ELSE findUpwardsFrom(filenames, Dirname(current))

findUpwards(filenames) == findUpwardsFrom(filenames, PROJECT_ROOT)

\* The same loop, one step at a time (the state of a call in progress).
\* Lines 24-29: one iteration of the for-loop over filenames.
FindCheck ==
    /\ pc = "findUpwards"
    /\ fuIdx <= Len(fuNames)
    /\ IF ExistsSync(PathJoin(fuCurrent, fuNames[fuIdx]))
       THEN /\ fuResult' = [directory |-> fuCurrent,
                            file |-> PathJoin(fuCurrent, fuNames[fuIdx]),
                            name |-> fuNames[fuIdx]]
            /\ pc' = "returned"
            /\ UNCHANGED <<fuCurrent, fuIdx>>
       ELSE /\ fuIdx' = fuIdx + 1
            /\ UNCHANGED <<fuCurrent, fuResult, pc>>
    /\ UNCHANGED <<fsVars, pmConfig, fuNames, scrubVars, walkVars, projectVars, mainVars>>

\* Lines 31-36: the for-loop is exhausted; ascend, or stop at the root.
FindAscend ==
    /\ pc = "findUpwards"
    /\ fuIdx > Len(fuNames)
    /\ LET parent == Dirname(fuCurrent)
       IN  IF parent = fuCurrent
           THEN /\ fuResult' = Null
                /\ pc' = "returned"
                /\ UNCHANGED <<fuCurrent, fuIdx>>
           ELSE /\ fuCurrent' = parent
                /\ fuIdx' = 1
                /\ UNCHANGED <<fuResult, pc>>
    /\ UNCHANGED <<fsVars, pmConfig, fuNames, scrubVars, walkVars, projectVars, mainVars>>

\* ------------------------------------------------------- package managers
Profile(id, lockFile, install, uninstall, run, fix) ==
    [kind |-> "profile", id |-> id, lockFile |-> lockFile, install |-> install,
     uninstall |-> uninstall, lintRun |-> run, lintFix |-> fix]

PACKAGE_MANAGERS ==
    [pnpm |-> Profile("pnpm", "pnpm-lock.yaml", "pnpm add -D -E", "pnpm remove",
                      "pnpm lint", "pnpm lint:fix"),
     yarn |-> Profile("yarn", "yarn.lock", "yarn add -D -E", "yarn remove",
                      "yarn lint", "yarn lint:fix"),
     bun  |-> Profile("bun", "bun.lockb", "bun add -D -E", "bun remove",
                      "bun run lint", "bun run lint:fix"),
     npm  |-> Profile("npm", "null", "npm install -D -E", "npm uninstall",
                      "npm run lint", "npm run lint:fix")]

PACKAGE_MANAGER_PRIORITY == <<"pnpm", "yarn", "bun">>

\* undefined / null: the falsy value of a lookup or of the field extraction.
Undefined ==
    [kind |-> "undefined", id |-> "undefined", lockFile |-> "undefined",
     install |-> "undefined", uninstall |-> "undefined",
     lintRun |-> "undefined", lintFix |-> "undefined"]

\* A property every object inherits from Object.prototype: a truthy value that
\* is no profile (none of a profile's fields is defined on it).
ObjectPrototypeProperties == {"constructor", "toString", "valueOf", "hasOwnProperty"}

Inherited == [Undefined EXCEPT !.kind = "inherited"]

\* PACKAGE_MANAGERS[id], id being the words of a string.
PackageManagersGet(id) ==
    IF Len(id) = 1 /\ id[1] \in DOMAIN PACKAGE_MANAGERS THEN PACKAGE_MANAGERS[id[1]]
    ELSE IF Len(id) = 1 /\ id[1] \in ObjectPrototypeProperties THEN Inherited
    ELSE Undefined

Truthy(value) == value.kind # "undefined"

\* Mutant of SplitAtFirst: the version is not split off.
SplitAtFirstWhole(chars) == chars

\* const [id] = str.split("@"): the characters before the first "@".
SplitAtFirst(chars) ==
    LET ats == { i \in 1 .. Len(chars) : chars[i] = "@" }
    IN  IF ats = {} THEN chars ELSE SubSeq(chars, 1, Min(ats) - 1)

\* Lines 183-196.
ExtractFromPackageManagerField(pkgJsonPath) ==
    LET m == manifests[pkgJsonPath.dir]
    IN  IF m.state # "parsed" THEN Undefined
        ELSE IF m.packageManager.type # "string" THEN Undefined
        ELSE LET found == PackageManagersGet(SplitAtFirst(m.packageManager.chars))
             IN  IF Truthy(found) THEN found ELSE Undefined

\* Lines 210-220: the lockfile loop from position i on, then the npm fallback.
RECURSIVE DetectFromLockfiles(_)
DetectFromLockfiles(i) ==
    IF i > Len(PACKAGE_MANAGER_PRIORITY) THEN PACKAGE_MANAGERS.npm
    ELSE LET candidate == PACKAGE_MANAGERS[PACKAGE_MANAGER_PRIORITY[i]]
         IN  IF candidate.lockFile = "null" THEN DetectFromLockfiles(i + 1)
             ELSE IF findUpwards(<<candidate.lockFile>>) # Null THEN candidate
             ELSE DetectFromLockfiles(i + 1)

\* Lines 198-207, then the lockfile loop.
detectPackageManager ==
    LET fromLocalField == ExtractFromPackageManagerField(PATHS.packageJson)
        upstreamPkg == findUpwards(<<"package.json">>)
        fromUpstreamField ==
            IF upstreamPkg # Null /\ upstreamPkg.file # PATHS.packageJson
            THEN ExtractFromPackageManagerField(upstreamPkg.file)
            ELSE Undefined
    IN  IF Truthy(fromLocalField) THEN fromLocalField
        ELSE IF Truthy(fromUpstreamField) THEN fromUpstreamField
        ELSE DetectFromLockfiles(1)

\* The call `const pmConfig = detectPackageManager()` of main (line 610).
DetectPackageManager ==
    /\ pc = "detect"
    /\ pmConfig' = detectPackageManager
    /\ pc' = "prompt"
    /\ UNCHANGED <<fsVars, findVars, scrubVars, walkVars, projectVars, mainVars>>

\* ------------------------------------------------------------ the scrubber
\* A file's content is a sequence of atoms: single characters, and the words
\* the patterns look for. No word is a substring of a concatenation of other
\* atoms, so matching on atoms is matching on characters.
IsSpace(a) == a \in {" ", "\n", "\r", "\t"}
\* Mutant of IsLineEnd: the rest-of-line class matches line ends too.
IsLineEndNever(a) == FALSE
IsLineEnd(a) == a \in {"\n", "\r"}

DisableWords == {"eslint-disable"}
EnableWords == {"eslint-enable"}
EnvWords == {"eslint-env"}
\* The atoms that begin with the characters "eslint-".
EslintDashWords == {"eslint-disable", "eslint-enable", "eslint-env", "eslint-"}
\* The atoms that are the word "eslint" and can be followed by white space.
EslintWords == {"eslint"}

\* A pattern: the character after the opening "/", the atoms its keyword
\* matches, and the shape of what follows the keyword:
\*   "lazy"   [\s\S]*?\*\/      up to the first "*/"
\*   "nostar" \s+[^*]*\*\/      white space, then no "*" before the closing "*/"
\*   "line"   [^\n\r]*          the rest of the line
Pattern(second, words, tail) == [second |-> second, words |-> words, tail |-> tail]

ESLINT_DIRECTIVE_PATTERNS ==
    << Pattern("*", DisableWords, "lazy"),
       Pattern("*", EnableWords, "lazy"),
       Pattern("*", EnvWords, "lazy"),
       Pattern("*", EslintWords, "nostar"),
       Pattern("/", DisableWords, "line"),
       Pattern("/", EnableWords, "line"),
       Pattern("/", EnvWords, "line"),
       Pattern("/", EslintDashWords, "line") >>

\* The least index >= i of s that satisfies Test, or Len(s) + 1.
FirstFrom(s, i, Test(_)) ==
    LET hits == { m \in i .. Len(s) : Test(m) }
    IN  IF hits = {} THEN Len(s) + 1 ELSE Min(hits)

\* The index of the last atom of the match of regex that starts at index i of
\* s, or 0 when the regex does not match there.
MatchEnd(regex, s, i) ==
    IF ~(i + 1 <= Len(s) /\ s[i] = "/" /\ s[i + 1] = regex.second) THEN 0
    ELSE LET NotSpace(m) == ~IsSpace(s[m])
             j == FirstFrom(s, i + 2, NotSpace)
         IN  IF ~(j <= Len(s) /\ s[j] \in regex.words) THEN 0
             ELSE IF regex.tail = "line"
                  THEN LET LineEnd(m) == IsLineEnd(s[m])
                       IN  FirstFrom(s, j + 1, LineEnd) - 1
             ELSE IF regex.tail = "lazy"
                  THEN LET Close(m) == m + 1 <= Len(s) /\ s[m] = "*" /\ s[m + 1] = "/"
                           c == FirstFrom(s, j + 1, Close)
                       IN  IF c <= Len(s) THEN c + 1 ELSE 0
             ELSE LET Star(m) == s[m] = "*"
                      c == FirstFrom(s, j + 2, Star)
                  IN  IF /\ j + 1 <= Len(s) /\ IsSpace(s[j + 1])
                         /\ c + 1 <= Len(s) /\ s[c + 1] = "/"
                      THEN c + 1 ELSE 0

\* modified.match(regex) and modified.replace(regex, "") of a global regex,
\* scanning s from index i: the matches are taken leftmost first and do not
\* overlap; what is not matched is kept.
RECURSIVE ReplaceFrom(_, _, _)
ReplaceFrom(regex, s, i) ==
    IF i > Len(s) THEN [modified |-> <<>>, removedCount |-> 0]
    ELSE LET e == MatchEnd(regex, s, i)
         IN  IF e = 0
             THEN LET rest == ReplaceFrom(regex, s, i + 1)
                  IN  [rest EXCEPT !.modified = <<s[i]>> \o @]
             ELSE LET rest == ReplaceFrom(regex, s, e + 1)
                  IN  [rest EXCEPT !.removedCount = @ + 1]

\* Lines 506-512 from pattern k on, acc being {modified, removedCount} so far.
RECURSIVE StripWithPatterns(_, _)
StripWithPatterns(acc, k) ==
    IF k > Len(ESLINT_DIRECTIVE_PATTERNS) THEN acc
    ELSE LET r == ReplaceFrom(ESLINT_DIRECTIVE_PATTERNS[k], acc.modified, 1)
         IN  StripWithPatterns([modified |-> r.modified,
                                removedCount |-> acc.removedCount + r.removedCount],
                               k + 1)

\* Lines 502-518.
stripEslintCommentsFromContent(content) ==
    StripWithPatterns([modified |-> content, removedCount |-> 0], 1)

\* ------------------------------------------------------------ the file walk
\* An entry name is its parts between the dots: "index.ts" is <<"index", "ts">>
\* and ".git" is <<"", "git">>.
CODE_EXTENSIONS == {"js", "jsx", "ts", "tsx", "mjs", "cjs", "vue", "svelte", "astro"}

IGNORED_DIRECTORIES ==
    { <<"node_modules">>, <<"", "git">>, <<"dist">>, <<"build">>, <<"coverage">>,
      <<"", "next">>, <<"", "turbo">>, <<"", "cache">>, <<"", "vscode">>, <<"", "idea">> }

\* Mutant of shouldIgnoreDir: the names that begin with a dot are forgotten.
shouldIgnoreDirUndotted(dirName) == dirName \in IGNORED_DIRECTORIES /\ dirName[1] # ""

shouldIgnoreDir(dirName) == dirName \in IGNORED_DIRECTORIES

\* path.extname: what follows the last dot of the name, a dot that opens the
\* name not counting; "" when there is none.
ExtName(name) ==
    IF Len(name) = 1 \/ (Len(name) = 2 /\ name[1] = "") THEN "" ELSE name[Len(name)]

isCodeFile(name) == ExtName(name) \in CODE_EXTENSIONS

\* The entries of a directory in fs.readdirSync's order (here: by entry number).
RECURSIVE SortedSeq(_)
SortedSeq(S) == IF S = {} THEN <<>> ELSE <<Min(S)>> \o SortedSeq(S \ {Min(S)})

ReadDirSync(directory) == SortedSeq({ n \in DOMAIN tree : tree[n].parent = directory })

\* Lines 521-523.
NoStats == [filesScanned |-> 0, filesTouched |-> 0, totalCommentsRemoved |-> 0]

\* Mutant of ShouldRewrite: every scanned file is written back.
ShouldRewriteAlways(result) == result.removedCount >= 0

\* Line 544: whether the file is written back.
ShouldRewrite(result) == result.removedCount > 0

\* Line 552: walk(rootDir) lists the root.
WalkBegin ==
    /\ pc = "scrub"
    /\ listed' = listed \cup {0}
    /\ wStack' = ReadDirSync(0)
    /\ pc' = "walking"
    /\ UNCHANGED <<fsVars, findVars, scrubVars, pmConfig, tree, fileContent, stats,
                   scanned, rewritten, projectVars, mainVars>>

\* Lines 531-532: an ignored directory is left alone.
WalkIgnoredDirectory ==
    /\ pc = "walking" /\ wStack # <<>>
    /\ tree[Head(wStack)].kind = "directory"
    /\ shouldIgnoreDir(tree[Head(wStack)].name)
    /\ wStack' = Tail(wStack)
    /\ UNCHANGED <<fsVars, findVars, scrubVars, pc, pmConfig, tree, fileContent, stats,
                   listed, scanned, rewritten, projectVars, mainVars>>

\* Lines 531-535: any other directory is walked before the entries that follow.
WalkDirectory ==
    /\ pc = "walking" /\ wStack # <<>>
    /\ tree[Head(wStack)].kind = "directory"
    /\ ~shouldIgnoreDir(tree[Head(wStack)].name)
    /\ listed' = listed \cup {Head(wStack)}
    /\ wStack' = ReadDirSync(Head(wStack)) \o Tail(wStack)
    /\ UNCHANGED <<fsVars, findVars, scrubVars, pc, pmConfig, tree, fileContent, stats,
                   scanned, rewritten, projectVars, mainVars>>

\* Lines 537-538: what is no file, or no code file, is passed over.
WalkSkipEntry ==
    /\ pc = "walking" /\ wStack # <<>>
    /\ tree[Head(wStack)].kind # "directory"
    /\ tree[Head(wStack)].kind # "file" \/ ~isCodeFile(tree[Head(wStack)].name)
    /\ wStack' = Tail(wStack)
    /\ UNCHANGED <<fsVars, findVars, scrubVars, pc, pmConfig, tree, fileContent, stats,
                   listed, scanned, rewritten, projectVars, mainVars>>

\* Lines 540-548: a code file is read, stripped, and written back if need be.
WalkCodeFile ==
    /\ pc = "walking" /\ wStack # <<>>
    /\ tree[Head(wStack)].kind = "file"
    /\ isCodeFile(tree[Head(wStack)].name)
    /\ LET entry == Head(wStack)
           result == stripEslintCommentsFromContent(fileContent[entry])
       IN  /\ scanned' = scanned \cup {entry}
           /\ IF ShouldRewrite(result)
              THEN /\ fileContent' = [fileContent EXCEPT ![entry] = result.modified]
                   /\ rewritten' = Append(rewritten, entry)
                   /\ stats' = [filesScanned |-> stats.filesScanned + 1,
                                filesTouched |-> stats.filesTouched + 1,
                                totalCommentsRemoved |->
                                    stats.totalCommentsRemoved + result.removedCount]
              ELSE /\ stats' = [stats EXCEPT !.filesScanned = @ + 1]
                   /\ UNCHANGED <<fileContent, rewritten>>
    /\ wStack' = Tail(wStack)
    /\ UNCHANGED <<fsVars, findVars, scrubVars, pc, pmConfig, tree, listed, projectVars,
                   mainVars>>

\* Lines 554-558: every entry is visited; the counts are returned.
WalkReturn ==
    /\ pc = "walking" /\ wStack = <<>>
    /\ pc' = "lintFix"
    /\ UNCHANGED <<fsVars, findVars, scrubVars, pmConfig, walkVars, projectVars, mainVars>>

\* ------------------------------------------------------------------- main
BIOME_VERSION == "2.3.8"

\* A package name is its words and the signs between them.
\* Lines 83, 269: LEGACY_TOOL_PATTERN.test(name), whatever the case of the letters.
LegacyWords == {"eslint", "ESLint", "prettier", "Prettier"}

LegacyToolPatternTest(name) == \E i \in DOMAIN name : name[i] \in LegacyWords

\* Lines 255-276: the names that match, each once, in the order they are met
\* (pkg.deps is the four dependency groups one after the other).
RECURSIVE Dedupe(_)
Dedupe(seq) ==
    IF seq = <<>> THEN <<>>
    ELSE LET init == Dedupe(SubSeq(seq, 1, Len(seq) - 1))
             last == seq[Len(seq)]
         IN  IF last \in { init[i] : i \in DOMAIN init } THEN init ELSE Append(init, last)

findLegacyTools(p) == Dedupe(SelectSeq(p.deps, LegacyToolPatternTest))

HasDependency(p, name) == \E i \in DOMAIN p.deps : p.deps[i] = name

\* Lines 63-81.
inferProjectType(p) ==
    IF \/ HasDependency(p, <<"next">>)
       \/ HasDependency(p, <<"react">>)
       \/ HasDependency(p, <<"react", "-", "dom">>)
    THEN "react" ELSE "node"

\* Lines 44-61.
isTypescriptProject(p) == tsconfig \/ HasDependency(p, <<"typescript">>)

\* Lines 325-458: the base configuration, with the css section for react.
createBiomeConfig(type) ==
    [schema |-> <<"https://biomejs.dev/schemas/", BIOME_VERSION, "/schema.json">>,
     css |-> type = "react"]

NoBiomeConfig == [exists |-> FALSE, by |-> "nobody", config |-> createBiomeConfig("node")]

\* Mutant of writeBiomeConfig: the file is written whether it exists or not.
writeBiomeConfigAlways(current, type) ==
    [exists |-> TRUE, by |-> "biome-setup", config |-> createBiomeConfig(type)]

\* Lines 460-471: biome.json after writeBiomeConfig(type).
writeBiomeConfig(current, type) ==
    IF current.exists THEN current
    ELSE [exists |-> TRUE, by |-> "biome-setup", config |-> createBiomeConfig(type)]

\* Lines 223-241: the error readPackageJson throws, if it throws.
CliError(message) == [class |-> "CliError", message |-> message]
TypeError(message) == [class |-> "TypeError", message |-> message]

NoCommand == [program |-> "", args |-> <<>>]
Message(words, command, status) ==
    [text |-> words, command |-> command, exitCode |-> status]

ReadPackageJsonThrows == manifests[PROJECT_ROOT].state # "parsed"

ReadPackageJsonError ==
    IF manifests[PROJECT_ROOT].state = "absent"
    THEN CliError(Message("No package.json found. Please run this command in your project root.",
                          NoCommand, <<>>))
    ELSE CliError(Message("Could not read or parse package.json: ", NoCommand, <<>>))

\* The outcomes of cp.execSync: success, or an error whose status is a number
\* or null (the command was killed by a signal).
Outcomes ==
    { [ok |-> TRUE, status |-> "0"], [ok |-> FALSE, status |-> "1"],
      [ok |-> FALSE, status |-> "127"], [ok |-> FALSE, status |-> "null"] }

\* Mutant of RunCommandThrows: the failure of the command is swallowed.
RunCommandNeverThrows(outcome) == FALSE

\* Lines 280-288: whether runCommand throws.
RunCommandThrows(outcome) == ~outcome.ok

\* Lines 283-287: the error runCommand throws.
CommandFailed(command, outcome) ==
    CliError(Message("Command failed: ", command,
                     IF outcome.status # "null"
                     THEN <<" (exit code ", outcome.status, ")">> ELSE <<>>))

\* Lines 668-676: the catch block of main.
Catch(error) ==
    /\ errors' = Append(errors,
                        IF error.class = "CliError"
                        THEN [kind |-> "user", message |-> error.message]
                        ELSE [kind |-> "unexpected", message |-> error.message])
    /\ exitCode' = 1
    /\ pc' = "exited"

\* pmConfig.buildUninstallCommand(packages), pmConfig.buildInstallCommand(dep)
\* and pmConfig.lint.fix; none exists on a value that is no profile.
IsProfile(config) == config.kind = "profile"
BuildUninstallCommand(config, packages) == [program |-> config.uninstall, args |-> packages]
BuildInstallCommand(config, dependency) == [program |-> config.install, args |-> <<dependency>>]
LintFixCommand(config) == [program |-> config.lintFix, args |-> <<>>]

\* Line 609.
MainReadPackageJson ==
    /\ pc = "start"
    /\ IF ReadPackageJsonThrows
       THEN Catch(ReadPackageJsonError)
       ELSE pc' = "detect" /\ UNCHANGED <<errors, exitCode>>
    /\ UNCHANGED <<fsVars, findVars, scrubVars, walkVars, projectVars, pmConfig,
                   legacyPackages, projectType, answers, commands, written, summary>>

\* Lines 611-628: the legacy packages, the project type, and the two answers;
\* removeLegacy is asked for only when there are legacy packages.
MainPrompt ==
    /\ pc = "prompt"
    /\ legacyPackages' = findLegacyTools(pkg)
    /\ projectType' = inferProjectType(pkg)
    /\ \E removeLegacy, cleanComments \in BOOLEAN :
           /\ removeLegacy => Len(findLegacyTools(pkg)) > 0
           /\ answers' = [removeLegacy |-> removeLegacy, cleanComments |-> cleanComments]
           /\ pc' = IF Len(findLegacyTools(pkg)) > 0 /\ removeLegacy
                    THEN "uninstall" ELSE "install"
    /\ UNCHANGED <<fsVars, findVars, scrubVars, walkVars, projectVars, pmConfig,
                   commands, written, errors, summary, exitCode>>

\* Lines 630-639 (291-314): the legacy packages are uninstalled, then
\* eslintConfig and prettier are deleted from package.json.
MainUninstall ==
    /\ pc = "uninstall"
    /\ IF ~IsProfile(pmConfig)
       THEN /\ Catch(TypeError(Message("pmConfig.buildUninstallCommand is not a function",
                                       NoCommand, <<>>)))
            /\ UNCHANGED <<commands, pkg, written>>
       ELSE \E outcome \in Outcomes :
              LET command == BuildUninstallCommand(pmConfig, legacyPackages)
              IN  /\ commands' = Append(commands, [command |-> command, outcome |-> outcome])
                  /\ IF RunCommandThrows(outcome)
                     THEN /\ Catch(CommandFailed(command, outcome))
                          /\ UNCHANGED <<pkg, written>>
                     ELSE IF ReadPackageJsonThrows
                     THEN /\ Catch(ReadPackageJsonError)
                          /\ UNCHANGED <<pkg, written>>
                     ELSE /\ pkg' = [pkg EXCEPT !.eslintConfig = FALSE, !.prettier = FALSE]
                          /\ written' = IF pkg.eslintConfig \/ pkg.prettier
                                        THEN Append(written, "package.json") ELSE written
                          /\ pc' = "install"
                          /\ UNCHANGED <<errors, exitCode>>
    /\ UNCHANGED <<fsVars, findVars, scrubVars, walkVars, tsconfig, biomeConfig, pmConfig,
                   legacyPackages, projectType, answers, summary>>

\* Lines 644 (316-323).
MainInstall ==
    /\ pc = "install"
    /\ IF ~IsProfile(pmConfig)
       THEN /\ Catch(TypeError(Message("pmConfig.buildInstallCommand is not a function",
                                       NoCommand, <<>>)))
            /\ UNCHANGED commands
       ELSE \E outcome \in Outcomes :
              LET command == BuildInstallCommand(pmConfig, <<"@biomejs/biome@", BIOME_VERSION>>)
              IN  /\ commands' = Append(commands, [command |-> command, outcome |-> outcome])
                  /\ IF RunCommandThrows(outcome)
                     THEN Catch(CommandFailed(command, outcome))
                     ELSE pc' = "writeBiomeConfig" /\ UNCHANGED <<errors, exitCode>>
    /\ UNCHANGED <<fsVars, findVars, scrubVars, walkVars, projectVars, pmConfig,
                   legacyPackages, projectType, answers, written, summary>>

\* Line 645 (460-471).
MainWriteBiomeConfig ==
    /\ pc = "writeBiomeConfig"
    /\ biomeConfig' = writeBiomeConfig(biomeConfig, projectType)
    /\ written' = IF writeBiomeConfig(biomeConfig, projectType) # biomeConfig
                  THEN Append(written, "biome.json") ELSE written
    /\ pc' = "updateScripts"
    /\ UNCHANGED <<fsVars, findVars, scrubVars, walkVars, pkg, tsconfig, pmConfig,
                   legacyPackages, projectType, answers, commands, errors, summary,
                   exitCode>>

\* Lines 646 (473-492), then the choice of line 654.
MainUpdateScripts ==
    /\ pc = "updateScripts"
    /\ IF ReadPackageJsonThrows
       THEN Catch(ReadPackageJsonError) /\ UNCHANGED <<pkg, written>>
       ELSE /\ pkg' = [pkg EXCEPT !.scripts =
                          IF isTypescriptProject(pkg)
                          THEN [typeCheck |-> "tsc -b --noEmit",
                                lint |-> "biome lint --diagnostic-level=error --no-errors-on-unmatched && type-check",
                                lintFix |-> "biome check --write --unsafe && type-check"]
                          ELSE [@ EXCEPT
                                !.lint = "biome lint --diagnostic-level=error --no-errors-on-unmatched",
                                !.lintFix = "biome check --write --unsafe"]]
            /\ written' = Append(written, "package.json")
            /\ pc' = IF answers.cleanComments THEN "scrub" ELSE "lintFix"
            /\ UNCHANGED <<errors, exitCode>>
    /\ UNCHANGED <<fsVars, findVars, scrubVars, walkVars, tsconfig, biomeConfig, pmConfig,
                   legacyPackages, projectType, answers, commands, summary>>

\* Lines 663-667: lint:fix is run, then the summary is printed and main ends.
MainLintFix ==
    /\ pc = "lintFix"
    /\ \E outcome \in Outcomes :
         LET command == LintFixCommand(pmConfig)
         IN  /\ commands' = Append(commands, [command |-> command, outcome |-> outcome])
             /\ IF RunCommandThrows(outcome)
                THEN Catch(CommandFailed(command, outcome)) /\ UNCHANGED summary
                ELSE /\ summary' = TRUE
                     /\ exitCode' = 0
                     /\ pc' = "exited"
                     /\ UNCHANGED errors
    /\ UNCHANGED <<fsVars, findVars, scrubVars, walkVars, projectVars, pmConfig,
                   legacyPackages, projectType, answers, written>>

\* --------------------------------------------------------- specifications
\* What each specification leaves out is held at these values.
NoScripts == [typeCheck |-> "", lint |-> "", lintFix |-> ""]
NoPkg == [deps |-> <<>>, eslintConfig |-> FALSE, prettier |-> FALSE, scripts |-> NoScripts]
NoAnswers == [removeLegacy |-> FALSE, cleanComments |-> FALSE]

NoFileSystem ==
    /\ manifests = [l \in Levels |-> [state |-> "absent", packageManager |-> NoField]]
    /\ lockfiles = [l \in Levels |-> {}]

NoFind ==
    /\ fuNames = <<>>
    /\ fuCurrent = PROJECT_ROOT
    /\ fuIdx = 1
    /\ fuResult = Null

NoScrub ==
    /\ original = <<>>
    /\ text = <<>>
    /\ removed = <<>>

NoWalkYet ==
    /\ wStack = <<>>
    /\ stats = NoStats
    /\ listed = {}
    /\ scanned = {}
    /\ rewritten = <<>>

NoTree ==
    /\ tree = <<>>
    /\ fileContent = <<>>
    /\ NoWalkYet

NoProject ==
    /\ pkg = NoPkg
    /\ tsconfig = FALSE
    /\ biomeConfig = NoBiomeConfig

NoMainYet ==
    /\ pmConfig = Undefined
    /\ legacyPackages = <<>>
    /\ projectType = "node"
    /\ answers = NoAnswers
    /\ commands = <<>>
    /\ written = <<>>
    /\ errors = <<>>
    /\ summary = FALSE
    /\ exitCode = -1
\* detectPackageManager on every directory chain.
InitDetect ==
    /\ manifests \in [Levels -> ManifestValues]
    /\ lockfiles \in [Levels -> SUBSET LockFileNames]
    /\ pc = "detect"
    /\ NoFind /\ NoScrub /\ NoTree /\ NoProject /\ NoMainYet

NextDetect == DetectPackageManager

SpecDetect == InitDetect /\ [][NextDetect]_vars

\* The pieces file contents are made of: the atoms, and the two-character
\* comment openers and closers.
Pieces ==
    { <<"/">>, <<"*">>, <<" ">>, <<"\n">>, <<"x">>,
      <<"/", "/">>, <<"/", "*">>, <<"*", "/">>,
      <<"eslint-disable">>, <<"eslint-enable">>, <<"eslint-env">>,
      <<"eslint-">>, <<"eslint">> }

RECURSIVE Flatten(_)
Flatten(pieces) ==
    IF pieces = <<>> THEN <<>> ELSE Head(pieces) \o Flatten(Tail(pieces))

\* The pieces of line comments: enough for several directives on several lines.
LinePieces == { <<"/", "/">>, <<"\n">>, <<"x">>, <<"eslint-">>, <<"eslint-disable">> }

\* The pieces of block comments: enough for a directive with text after it.
BlockPieces ==
    { <<"/", "*">>, <<"*", "/">>, <<"*">>, <<" ">>, <<"eslint">>, <<"eslint-disable">> }

\* The contents made of at most max of the pieces.
ContentsOf(pieces, max) ==
    { Flatten(ps) : ps \in UNION { [1 .. n -> pieces] : n \in 0 .. max } }

Contents(any, line, block) ==
    ContentsOf(Pieces, any) \cup ContentsOf(LinePieces, line)
        \cup ContentsOf(BlockPieces, block)

\* One call of stripEslintCommentsFromContent on the content as it now is.
ScrubPass ==
    /\ pc = "scrub"
    /\ Len(removed) < MaxPasses
    /\ LET result == stripEslintCommentsFromContent(text)
       IN  /\ text' = result.modified
           /\ removed' = Append(removed, result.removedCount)
    /\ UNCHANGED <<fsVars, findVars, pc, pmConfig, original, walkVars, projectVars, mainVars>>

InitScrub ==
    /\ original \in Contents(MaxPieces, MaxLinePieces, MaxBlockPieces)
    /\ text = original
    /\ removed = <<>>
    /\ pc = "scrub"
    /\ NoFileSystem /\ NoFind /\ NoTree /\ NoProject /\ NoMainYet

NextScrub == ScrubPass

SpecScrub == InitScrub /\ [][NextScrub]_vars

\* findUpwards, step by step, on every chain of directories that hold a
\* package.json and lockfiles or not. The code runs to completion (nothing
\* else is scheduled), hence the weak fairness.
FindNames == {"package.json", "pnpm-lock.yaml", "yarn.lock"}

CandidateLists ==
    { names \in UNION { [1 .. n -> FindNames] : n \in 0 .. MaxNames } :
          \A i, j \in 1 .. Len(names) : i # j => names[i] # names[j] }

InitFind ==
    /\ manifests \in [Levels -> { [state |-> "absent", packageManager |-> NoField],
                                  [state |-> "parsed", packageManager |-> NoField] }]
    /\ lockfiles \in [Levels -> SUBSET (FindNames \cap LockFileNames)]
    /\ fuNames \in CandidateLists
    /\ fuCurrent = PROJECT_ROOT
    /\ fuIdx = 1
    /\ fuResult = Null
    /\ pc = "findUpwards"
    /\ NoScrub /\ NoTree /\ NoProject /\ NoMainYet

NextFind == FindCheck \/ FindAscend

SpecFind == InitFind /\ [][NextFind]_vars /\ WF_vars(NextFind)

\* walkAndCleanComments on every tree of MaxNodes entries.
EntryNames == { <<"src">>, <<"node_modules">>, <<"", "git">> }
FileNames == { <<"index", "ts">>, <<"notes", "md">> }
FileContents == { <<"x">>, <<"/", "/", " ", "eslint-disable", "\n", "x">> }

Directory(name, parent) ==
    [kind |-> "directory", name |-> name, parent |-> parent, content |-> <<>>]
File(name, parent, content) ==
    [kind |-> "file", name |-> name, parent |-> parent, content |-> content]
\* Neither a file nor a directory: a symbolic link, a socket.
Other(name, parent) ==
    [kind |-> "other", name |-> name, parent |-> parent, content |-> <<>>]

Entries(parents) ==
    { Directory(n, p) : n \in EntryNames, p \in parents }
    \cup { File(n[1], n[2], n[3]) : n \in FileNames \X parents \X FileContents }
    \cup { Other(<<"link", "js">>, p) : p \in parents }

\* Every entry lies in the root (0) or in a directory numbered before it, and
\* no directory holds two entries of one name.
Trees(count) ==
    { t \in [1 .. count -> Entries(0 .. count - 1)] :
        \A n \in 1 .. count :
            /\ t[n].parent < n
            /\ t[n].parent # 0 => t[t[n].parent].kind = "directory"
            /\ \A o \in 1 .. count :
                   (o # n /\ t[o].parent = t[n].parent) => t[o].name # t[n].name }

InitWalk ==
    /\ tree \in Trees(MaxNodes)
    /\ fileContent = [n \in DOMAIN tree |-> tree[n].content]
    /\ NoWalkYet
    /\ pc = "scrub"
    /\ NoFileSystem /\ NoFind /\ NoScrub /\ NoProject /\ NoMainYet

NextWalk ==
    \/ WalkBegin
    \/ WalkIgnoredDirectory
    \/ WalkDirectory
    \/ WalkSkipEntry
    \/ WalkCodeFile
    \/ WalkReturn

SpecWalk == InitWalk /\ [][NextWalk]_vars

\* main from its first line, in projects of a single directory level: the
\* local package.json in each of its states, with or without a yarn.lock, a
\* tsconfig.json and a biome.json, and one tree of source files.
MainManifests ==
    { m \in ManifestValues :
          \/ m.packageManager.type # "string"
          \/ m.packageManager.chars[1] \in {"pnpm", "constructor"} }

MainDependencies ==
    { <<>>,
      << <<"eslint">>, <<"eslint", "-", "config", "-", "foo">>, <<"react">> >>,
      << <<"prettier">>, <<"typescript">>, <<"prettier">> >> }

UserBiomeConfig ==
    [exists |-> TRUE, by |-> "user",
     config |-> [schema |-> <<"https://biomejs.dev/schemas/", "1.9.4", "/schema.json">>,
                 css |-> FALSE]]

MainTree ==
    << Directory(<<"src">>, 0),
       File(<<"index", "ts">>, 1, <<"/", "/", " ", "eslint-disable", "\n", "x">>),
       Directory(<<"node_modules">>, 0),
       File(<<"index", "ts">>, 3, <<"/", "*", "eslint-disable", "*", "/">>),
       File(<<"notes", "md">>, 0, <<"x">>) >>

InitMain ==
    /\ \E m \in MainManifests :
           manifests = [l \in Levels |->
                            IF l = PROJECT_ROOT THEN m
                            ELSE [state |-> "absent", packageManager |-> NoField]]
    /\ \E files \in {{}, {"yarn.lock"}} :
           lockfiles = [l \in Levels |-> IF l = PROJECT_ROOT THEN files ELSE {}]
    /\ \E deps \in MainDependencies, eslintConfig \in BOOLEAN :
           pkg = IF manifests[PROJECT_ROOT].state = "parsed"
                 THEN [deps |-> deps, eslintConfig |-> eslintConfig, prettier |-> FALSE,
                       scripts |-> NoScripts]
                 ELSE NoPkg
    /\ tsconfig \in BOOLEAN
    /\ biomeConfig \in {NoBiomeConfig, UserBiomeConfig}
    /\ tree = MainTree
    /\ fileContent = [n \in DOMAIN tree |-> tree[n].content]
    /\ NoWalkYet
    /\ pc = "start"
    /\ NoFind /\ NoScrub /\ NoMainYet

NextMain ==
    \/ MainReadPackageJson
    \/ DetectPackageManager
    \/ MainPrompt
    \/ MainUninstall
    \/ MainInstall
    \/ MainWriteBiomeConfig
    \/ MainUpdateScripts
    \/ WalkBegin
    \/ WalkIgnoredDirectory
    \/ WalkDirectory
    \/ WalkSkipEntry
    \/ WalkCodeFile
    \/ WalkReturn
    \/ MainLintFix

SpecMain == InitMain /\ [][NextMain]_vars

\* ------------------------------------------------------------------ claims
KnownManagers == {"pnpm", "yarn", "bun", "npm"}

\* The manifest of a level declares manager m in name@version syntax.
Declares(level, m) ==
    /\ manifests[level].state = "parsed"
    /\ manifests[level].packageManager.type = "string"
    /\ Len(manifests[level].packageManager.chars) = 3
    /\ manifests[level].packageManager.chars[1] = m
    /\ manifests[level].packageManager.chars[2] = "@"

DeclaresKnown(level) == \E m \in KnownManagers : Declares(level, m)

\* C1: when the local manifest's packageManager field names a known manager,
\* detectPackageManager returns that manager's profile, whatever lockfiles
\* the working directory and its ancestors hold.
C1_LocalDeclarationWins ==
    pc = "prompt" =>
        \A m \in KnownManagers :
            Declares(PROJECT_ROOT, m) => pmConfig = PACKAGE_MANAGERS[m]

\* Scenario A: pnpm declared locally, a yarn.lock beside it, pnpm detected.
C1_Witness ==
    /\ pc = "prompt"
    /\ Declares(PROJECT_ROOT, "pnpm")
    /\ "yarn.lock" \in lockfiles[PROJECT_ROOT]
    /\ pmConfig.id = "pnpm"

\* The levels above the working directory that hold a manifest.
AncestorManifests == { l \in Levels : l > PROJECT_ROOT /\ manifests[l].state # "absent" }

\* C2: when the local manifest exists and declares no known manager, and the
\* nearest ancestor manifest declares one, detectPackageManager returns the
\* manager the ancestor declares, ahead of any lockfile.
C2_AncestorDeclarationWins ==
    ( /\ pc = "prompt"
      /\ manifests[PROJECT_ROOT].state # "absent"
      /\ ~DeclaresKnown(PROJECT_ROOT)
      /\ AncestorManifests # {} )
    => \A m \in KnownManagers :
           Declares(Min(AncestorManifests), m) => pmConfig = PACKAGE_MANAGERS[m]

\* The levels that hold a lockfile of pnpm, yarn or bun.
LockfileLevels == { l \in Levels : lockfiles[l] # {} }

\* The first manager in priority order whose lockfile is in the set.
FirstByPriority(files) ==
    LET ks == { k \in 1 .. Len(PACKAGE_MANAGER_PRIORITY) :
                    PACKAGE_MANAGERS[PACKAGE_MANAGER_PRIORITY[k]].lockFile \in files }
    IN  PACKAGE_MANAGERS[PACKAGE_MANAGER_PRIORITY[Min(ks)]]

\* C3: when no manifest declares a known manager, detectPackageManager returns
\* the manager whose lockfile is nearest to the working directory (priority
\* order deciding within one directory), and npm when there is no lockfile.
C3_NearestLockfileWins ==
    ( /\ pc = "prompt"
      /\ \A l \in Levels : ~DeclaresKnown(l) )
    => pmConfig = IF LockfileLevels = {} THEN PACKAGE_MANAGERS.npm
                  ELSE FirstByPriority(lockfiles[Min(LockfileLevels)])

\* The existing candidates, as (level, position in the list).
Candidates(names) ==
    { c \in Levels \X (1 .. Len(names)) : ExistsSync(PathJoin(c[1], names[c[2]])) }

\* Closer directory first, then earlier in the list.
Before(a, b) == a[1] < b[1] \/ (a[1] = b[1] /\ a[2] <= b[2])

FirstMatch(names) ==
    IF Candidates(names) = {} THEN Null
    ELSE LET c == CHOOSE c \in Candidates(names) :
                      \A o \in Candidates(names) : Before(c, o)
         IN  [directory |-> c[1], file |-> PathJoin(c[1], names[c[2]]),
              name |-> names[c[2]]]

\* C8: findUpwards terminates, and it returns the first existing candidate by
\* directory level (the root included) and then by position in the list, and
\* null exactly when no candidate exists at any level.
C8_FindUpwardsFirstMatch ==
    /\ [](pc = "returned" => fuResult = FirstMatch(fuNames))
    /\ <>(pc = "returned")

\* The second of two candidates is found in the root, nothing else exists.
C8_Witness ==
    /\ pc = "returned"
    /\ Len(fuNames) = 2
    /\ fuResult.directory = Depth - 1
    /\ fuResult.directory # PROJECT_ROOT
    /\ fuResult.name = fuNames[2]
    /\ Cardinality(Candidates(fuNames)) = 1

\* C4: the scrubber is idempotent: once a pass has been made, a further pass
\* removes nothing and leaves the text as it is.
C4_ScrubIdempotent ==
    [][Len(removed) >= 1 => (text' = text /\ removed' = Append(removed, 0))]_vars

\* The entries that are code files, and their removed count before the walk.
CodeFiles == { n \in DOMAIN tree : tree[n].kind = "file" /\ isCodeFile(tree[n].name) }

RemovedCountOf(n) == stripEslintCommentsFromContent(tree[n].content).removedCount

Range(seq) == { seq[i] : i \in DOMAIN seq }

\* C5: a file is rewritten and counted in filesTouched if and only if its
\* removed count is greater than zero; a scanned file with no match is never
\* written, keeps its bytes and is not counted as modified.
C5_RewrittenIffRemoved ==
    /\ \A n \in scanned : (n \in Range(rewritten)) <=> (RemovedCountOf(n) > 0)
    /\ \A n \in scanned :
           RemovedCountOf(n) = 0 => fileContent[n] = tree[n].content
    /\ Range(rewritten) \subseteq scanned
    /\ Len(rewritten) = Cardinality(Range(rewritten))
    /\ stats.filesTouched = Len(rewritten)

\* The walk is over; one scanned file was rewritten and another was not.
C5_Witness ==
    /\ pc = "lintFix"
    /\ \E n, o \in scanned :
           /\ RemovedCountOf(n) > 0 /\ n \in Range(rewritten)
           /\ fileContent[n] # tree[n].content
           /\ RemovedCountOf(o) = 0 /\ o \notin Range(rewritten)
    /\ stats.filesTouched = 1

\* The directories above an entry, up to the scrub root (not included).
RECURSIVE DirectoriesAbove(_)
DirectoriesAbove(n) ==
    IF tree[n].parent = 0 THEN {}
    ELSE {tree[n].parent} \cup DirectoriesAbove(tree[n].parent)

InsideIgnored(n) == \E d \in DirectoriesAbove(n) : tree[d].name \in IGNORED_DIRECTORIES

Lines(content) == 1 + Cardinality({ i \in DOMAIN content : content[i] = "\n" })

\* The atoms i .. j of the content are a line of their own that holds a
\* line-style directive and nothing else: "//", white space, a word that
\* begins with "eslint-", then the rest of the line.
DirectiveLine(content, i, j) ==
    /\ i + 2 <= j
    /\ i = 1 \/ content[i - 1] = "\n"
    /\ j = Len(content) \/ content[j + 1] = "\n"
    /\ content[i] = "/" /\ content[i + 1] = "/"
    /\ \E k \in (i + 2) .. j :
           /\ content[k] \in EslintDashWords
           /\ \A m \in (i + 2) .. (k - 1) : content[m] = " "
    /\ \A m \in (i + 2) .. j : content[m] # "\n" /\ content[m] # "/"

\* The content has one directive line, at i .. j, and no "/" anywhere else.
OnlyDirectiveAt(content, i, j) ==
    /\ DirectiveLine(content, i, j)
    /\ \A m \in DOMAIN content : (m < i \/ m > j) => content[m] # "/"

\* C9 as stated: scrubbing a file of several lines with a line-style directive
\* on a line of its own removes the line (the output has one line fewer, no
\* empty line is left behind) and counts 1.
C9_DirectiveLineRemoved ==
    \A i, j \in DOMAIN original :
        (Len(removed) = 1 /\ OnlyDirectiveAt(original, i, j) /\ Lines(original) >= 2)
            => (removed[1] = 1 /\ Lines(text) = Lines(original) - 1)

\* C9 amended: scrubbing deletes the directive's text and nothing else: the
\* line it stood on stays, empty (the number of lines is unchanged), and the
\* count is 1.
C9_DirectiveTextRemoved ==
    \A i, j \in DOMAIN original :
        (Len(removed) = 1 /\ OnlyDirectiveAt(original, i, j))
            => /\ removed[1] = 1
               /\ text = SubSeq(original, 1, i - 1) \o SubSeq(original, j + 1, Len(original))
               /\ Lines(text) = Lines(original)

\* "x", newline, "// eslint-disable x", newline, "x": three lines before and
\* three lines after, the middle one empty.
C9_Witness ==
    /\ Len(removed) = 1
    /\ \E i, j \in DOMAIN original :
           /\ OnlyDirectiveAt(original, i, j)
           /\ i > 1 /\ j < Len(original)
    /\ Lines(original) = 3
    /\ Lines(text) = 3
    /\ removed[1] = 1

LastCommandFailed == commands # <<>> /\ ~commands[Len(commands)].outcome.ok

\* C7: when an external command fails the run aborts at once: the step that
\* ran it does nothing else, no step follows it (no config write, no script
\* update, no scrub, no summary, no second attempt), the one error reported is
\* a user-reported error with the command's text and, when it is a number,
\* its exit status, and the process exits with code 1.
C7_CommandFailureAborts ==
    /\ [](\A i \in 1 .. (Len(commands) - 1) : commands[i].outcome.ok)
    /\ [](LastCommandFailed =>
             LET last == commands[Len(commands)]
             IN  /\ pc = "exited"
                 /\ exitCode = 1
                 /\ ~summary
                 /\ errors =
                      << [kind |-> "user",
                          message |->
                              [text |-> "Command failed: ",
                               command |-> last.command,
                               exitCode |->
                                   IF last.outcome.status \in {"1", "127"}
                                   THEN <<" (exit code ", last.outcome.status, ")">>
                                   ELSE <<>>]] >>)
    /\ [][(commands' # commands /\ ~commands'[Len(commands')].outcome.ok)
              => UNCHANGED <<projectVars, walkVars, written, summary>>]_vars
    /\ [][LastCommandFailed => UNCHANGED vars]_vars

\* The install command failed with status 127 after a successful uninstall:
\* no biome.json, nothing scanned although the scrub was asked for.
C7_Witness ==
    /\ LastCommandFailed
    /\ Len(commands) = 2
    /\ commands[2].outcome.status = "127"
    /\ commands[2].command.program = "pnpm add -D -E"
    /\ pc = "exited"
    /\ exitCode = 1
    /\ ~biomeConfig.exists
    /\ answers.cleanComments
    /\ scanned = {}

\* C10: a biome.json that exists is never changed by the run; biome.json is
\* written only by writeBiomeConfig and only when it is absent; and the run
\* goes on to the script update in both cases.
C10_BiomeConfigNeverOverwritten ==
    /\ [][biomeConfig.exists => biomeConfig' = biomeConfig]_vars
    /\ [][biomeConfig' # biomeConfig =>
              /\ ~biomeConfig.exists
              /\ pc = "writeBiomeConfig"
              /\ biomeConfig' = [exists |-> TRUE, by |-> "biome-setup",
                                 config |-> createBiomeConfig(projectType)]]_vars
    /\ [][pc = "writeBiomeConfig" =>
              /\ pc' = "updateScripts"
              /\ biomeConfig'.exists
              /\ written' = IF biomeConfig.exists THEN written
                            ELSE Append(written, "biome.json")]_vars

\* A run that found the user's biome.json ended with exit code 0, after the
\* script update and the scrub, and the file is still the user's.
C10_Witness ==
    /\ pc = "exited"
    /\ exitCode = 0
    /\ summary
    /\ biomeConfig = UserBiomeConfig
    /\ "biome.json" \notin Range(written)
    /\ "package.json" \in Range(written)
    /\ scanned # {}

\* The four profiles of PACKAGE_MANAGERS.
Profiles == { PACKAGE_MANAGERS[m] : m \in KnownManagers }

\* The local manifest declares a name that is no supported manager.
DeclaresUnrecognized(level) ==
    /\ manifests[level].state = "parsed"
    /\ manifests[level].packageManager.type = "string"
    /\ SplitAtFirst(manifests[level].packageManager.chars) \notin
           { <<m>> : m \in KnownManagers }

\* C11: whatever the packageManager fields and the lockfiles are,
\* detectPackageManager returns one of the four profiles pnpm, yarn, bun and
\* npm; a declared name that is no supported manager is ignored, and detection
\* goes on to the lockfiles and the npm fallback.
C11_AlwaysAProfile ==
    pc = "prompt" =>
        /\ pmConfig \in Profiles
        /\ DeclaresUnrecognized(PROJECT_ROOT) => pmConfig = DetectFromLockfiles(1)
====
